---- MODULE Spec2Model ----
(***************************************************************************)
(* pgp-dump (src/pgp-dump/src/main.rs): an interactive terminal inspector  *)
(* of the packets of an armored OpenPGP file.                              *)
(*                                                                         *)
(* Two units of execution are modelled: the main flow (main -> startup ->  *)
(* run -> shutdown) and the task spawned by App::handle_event, which polls *)
(* the terminal and sends Actions over an unbounded mpsc channel.  The     *)
(* process-wide panic hook of initialize_panic_handler runs on whichever   *)
(* unit panics.                                                            *)
(***************************************************************************)
EXTENDS Integers, Sequences, FiniteSets, TLC

\* ---------------------------------------------------------------- bounds
\* Largest number of packets the parser yields in the model.
MaxPackets == 2
\* Largest number of Actions in flight in the (unbounded) channel.
MaxQueue == 2
\* Largest number of sends recorded when the histories are observed.
MaxSends == 3
\* Number of time steps the timed view of the polling task runs for.
MaxSteps == 4
\* Largest number of terminal events the timed view lets arrive.
MaxEvents == 2

\* tick_rate (main.rs:127), in milliseconds.
tick_rate == 250
\* The granularity of time in the timed view: half a tick.
TimeStep == tick_rate \div 2

\* ------------------------------------------------------------ data types
\* enum Action (main.rs:159-167).
Actions == {"Left", "Right", "Down", "Up", "Quit", "None"}

\* The packet kinds the model distinguishes (pgp::packet::Packet is opaque
\* to the program: it only prints tag() and the Debug representation).
Tags == {"PublicKey", "Signature"}

\* Sequences over S of length 0..n.
SeqsUpTo(S, n) == UNION {[1..k -> S] : k \in 0..n}

\* What one iteration of the polling task can observe (main.rs:131-150):
\* poll() fails, poll() times out, read() fails, or read() yields an event.
KeyKinds == {"Press", "Release", "Repeat"}
KeyCodes == {"q", "Left", "Right", "Down", "Up", "x"}
Events ==
    {[poll |-> "err", read |-> "-", kind |-> "-", code |-> "-"],
     [poll |-> "timeout", read |-> "-", kind |-> "-", code |-> "-"],
     [poll |-> "ready", read |-> "err", kind |-> "-", code |-> "-"],
     [poll |-> "ready", read |-> "other", kind |-> "-", code |-> "-"]}
    \cup {[poll |-> "ready", read |-> "key", kind |-> k, code |-> c] :
              k \in KeyKinds, c \in KeyCodes}

\* The unwrap() calls of main.rs:131-132 panic on these observations.
PanicEvents == {e \in Events : e.poll = "err" \/ e.read = "err"}

\* ActionOf without the test of the kind of the key event (main.rs:133).
ActionOfAnyKind(e) ==
    IF e.poll = "ready"
    THEN IF e.read = "key"
         THEN CASE e.code = "q" -> "Quit"
                [] e.code = "Left" -> "Left"
                [] e.code = "Right" -> "Right"
                [] e.code = "Down" -> "Down"
                [] e.code = "Up" -> "Up"
                [] OTHER -> "None"
         ELSE "None"
    ELSE "None"

\* The Action computed by main.rs:131-150 for an observation that does not
\* panic.
ActionOf(e) ==
    IF e.poll = "ready"
    THEN IF e.read = "key"
         THEN IF e.kind = "Press"
              THEN CASE e.code = "q" -> "Quit"
                     [] e.code = "Left" -> "Left"
                     [] e.code = "Right" -> "Right"
                     [] e.code = "Down" -> "Down"
                     [] e.code = "Up" -> "Up"
                     [] OTHER -> "None"
              ELSE "None"
         ELSE "None"
    ELSE "None"

\* Outcomes of the two terminal operations of startup() (main.rs:15-19):
\* each `?` returns early on an I/O error.
StartupOutcomes == {"ok", "raw_fails", "alt_fails"}
\* Outcomes of the two terminal operations of shutdown() (main.rs:21-25).
ShutdownOutcomes == {"ok", "leave_fails", "disable_fails"}

\* ------------------------------------------------------------------ state
VARIABLES
    argv,           \* the command line: "file" (a path is given) or "missing"
    mpc,            \* position of the main flow
    exitStatus,     \* "-" while running; "ok" | "err" | "panic" | "abort"
    hookInstalled,  \* initialize_panic_handler has run
    hookRuns,       \* how many times the panic hook has been entered
    started,        \* startup() has returned Ok
    releaseFailed,  \* some shutdown() call has returned Err
    raw,            \* terminal is in raw mode
    alt,            \* terminal is on the alternate screen
    termOps,        \* the terminal-mode operations issued so far
    packets,        \* App.packets (Vec<Packet>)
    items,          \* App.items: the identifiers of the tree items, in order
    selected,       \* TreeState.selected: a path of identifiers
    opened,         \* TreeState.opened: a set of paths
    should_quit,    \* App.should_quit
    detail,         \* text of the detail pane in the last frame drawn
    queue,          \* Actions in flight in the channel
    txApp,          \* App.action_tx is alive
    txTask,         \* the task's clone of the sender is alive
    rxAlive,        \* action_rx is alive
    task,           \* state of the polling task
    observe,        \* the histories below are recorded (fixed by Init)
    sent,           \* history: the Actions the task has sent, in order
    applied,        \* history: the Actions update has reduced, in order
    frames,         \* history: the number of frames drawn
    now,            \* timed view: the current time, in milliseconds
    pollStart,      \* timed view: when the current poll() was entered
    sendLog         \* timed view: the sends so far, with time and cause

vars == <<argv, mpc, exitStatus, hookInstalled, hookRuns, started, releaseFailed,
          raw, alt, termOps, packets, items, selected, opened, should_quit,
          detail, queue, txApp, txTask, rxAlive, task, observe, sent,
          applied, frames, now, pollStart, sendLog>>

termVars == <<raw, alt, termOps>>
appVars == <<packets, items, selected, opened, should_quit, detail>>
navVars == <<selected, opened, should_quit>>
chanVars == <<queue, txApp, txTask, rxAlive>>
histVars == <<sent, applied, frames>>
tickVars == <<now, pollStart, sendLog>>

\* The process as it starts, with or without a file argument.
ProcessStart ==
    /\ argv \in {"file", "missing"}
    /\ mpc = "init"
    /\ exitStatus = "-"
    /\ hookInstalled = FALSE
    /\ hookRuns = 0
    /\ started = FALSE
    /\ releaseFailed = FALSE
    /\ raw = FALSE
    /\ alt = FALSE
    /\ termOps = {}
    /\ packets = <<>>
    /\ items = <<>>
    /\ selected = <<>>
    /\ opened = {}
    /\ should_quit = FALSE
    /\ detail = "-"
    /\ queue = <<>>
    /\ txApp = FALSE
    /\ txTask = FALSE
    /\ rxAlive = FALSE
    /\ task = "none"
    /\ sent = <<>>
    /\ applied = <<>>
    /\ frames = 0
    /\ now = 0
    /\ pollStart = 0
    /\ sendLog = <<>>

Init == ProcessStart /\ observe = FALSE

\* The same start with the histories recorded.
InitHist == ProcessStart /\ observe = TRUE


\* ------------------------------------------------- terminal session, hook
\* startup() (main.rs:15-19): enable_raw_mode()?, then
\* execute!(EnterAlternateScreen)?.
RunStartup(o) ==
    /\ termOps' = termOps \cup (IF o = "raw_fails"
                                THEN {"enable_raw"}
                                ELSE {"enable_raw", "enter_alt"})
    /\ raw' = IF o = "raw_fails" THEN raw ELSE TRUE
    /\ alt' = IF o = "ok" THEN TRUE ELSE alt

\* shutdown() (main.rs:21-25): execute!(LeaveAlternateScreen)?, then
\* disable_raw_mode()?.
RunShutdown(o) ==
    /\ termOps' = termOps \cup (IF o = "leave_fails"
                                THEN {"leave_alt"}
                                ELSE {"leave_alt", "disable_raw"})
    /\ alt' = IF o = "leave_fails" THEN alt ELSE FALSE
    /\ raw' = IF o = "ok" THEN FALSE ELSE raw
    /\ releaseFailed' = (releaseFailed \/ o # "ok")

\* The hook set by initialize_panic_handler (main.rs:9-12), entered by a
\* panicking unit: shutdown().unwrap(), then the original hook.  Without the
\* hook a panic touches nothing of the terminal.
PanicHook(o) ==
    IF hookInstalled
    THEN RunShutdown(o) /\ hookRuns' = hookRuns + 1
    ELSE UNCHANGED <<termVars, releaseFailed, hookRuns>>

\* shutdown().unwrap() panics inside the hook when shutdown() fails: a panic
\* while the hook runs aborts the process.
HookAborts(o) == hookInstalled /\ o # "ok"

\* A panic of the main flow: the hook runs, then the panic unwinds main
\* (dropping the App and the receiver if they exist) and the process ends
\* abnormally.
MainPanics(o) ==
    /\ PanicHook(o)
    /\ mpc' = IF HookAborts(o) THEN "exited" ELSE "ret"
    /\ exitStatus' = IF HookAborts(o) THEN "abort" ELSE "panic"
    /\ txApp' = FALSE
    /\ rxAlive' = FALSE

\* main returns Err(..) through a `?` (reported, exit status non-zero).
MainReturns(status) ==
    /\ mpc' = "ret"
    /\ exitStatus' = status

\* -------------------------------------------------------- navigation state
Last(s) == s[Len(s)]
Min(a, b) == IF a < b THEN a ELSE b

\* NewItems with identifiers counted from one instead of enumerate()'s zero.
NewItemsOneBased(pk) == [k \in 1..Len(pk) |-> k]

\* App::new (main.rs:37-42): one leaf per packet, identified by its index.
NewItems(pk) == [k \in 1..Len(pk) |-> k - 1]

\* The visible paths of the tree, in display order.  Every item is a root
\* leaf (TreeItem::new_leaf, main.rs:41), so every item is visible whatever
\* is opened.
Flatten(op, its) == [k \in 1..Len(its) |-> <<its[k]>>]

\* Position of path sel among the visible paths, 0 when it is not there.
IndexOf(sel, vis) ==
    IF \E k \in 1..Len(vis) : vis[k] = sel
    THEN CHOOSE k \in 1..Len(vis) : vis[k] = sel
    ELSE 0

\* TreeState::key_down(&items), called at main.rs:113.  The crate
\* tui_tree_widget is not part of the sources; modelled from spec 4.2 and
\* the scenario of spec 8: the next visible node, the first one when nothing
\* is selected, clamped at the last one.
key_down(sel, op, its) ==
    LET vis == Flatten(op, its)
        cur == IndexOf(sel, vis)
    IN  IF Len(vis) = 0 THEN <<>> ELSE vis[Min(cur + 1, Len(vis))]

\* TreeState::key_up(&items), called at main.rs:110; modelled from spec
\* 4.2: the previous visible node, clamped at the first one.  The spec does
\* not say what Up does when nothing is selected: the selection may stay
\* empty or land on either end.
key_up(sel, op, its) ==
    LET vis == Flatten(op, its)
        cur == IndexOf(sel, vis)
    IN  IF Len(vis) = 0 THEN {<<>>}
        ELSE IF cur = 0 THEN {<<>>, vis[1], vis[Len(vis)]}
        ELSE IF cur = 1 THEN {vis[1]}
        ELSE {vis[cur - 1]}

\* TreeState::key_left(), called at main.rs:116: collapse the selected node
\* if it is expanded.  Otherwise, on a root leaf, spec 4.2 describes a
\* no-op, while moving "to the parent" of a root by dropping the last
\* segment of the path empties the selection; both are allowed.
key_left(sel, op) ==
    IF sel \in op
    THEN {[selected |-> sel, opened |-> op \ {sel}]}
    ELSE {[selected |-> sel, opened |-> op],
          [selected |-> IF sel = <<>> THEN sel ELSE SubSeq(sel, 1, Len(sel) - 1),
           opened |-> op]}

\* TreeState::key_right(), called at main.rs:119: on a leaf spec 4.2
\* describes a no-op, while recording the selected path as opened changes
\* the opened set without changing what is visible; both are allowed.
key_right(sel, op) ==
    IF sel = <<>>
    THEN {[selected |-> sel, opened |-> op]}
    ELSE {[selected |-> sel, opened |-> op],
          [selected |-> sel, opened |-> op \cup {sel}]}

\* update with the Quit arm also taken for None.
updateQuitOnNone(msg, nav, its) ==
    CASE msg \in {"Quit", "None"} ->
           {[nav EXCEPT !.should_quit = TRUE]}
      [] msg = "Up" ->
           {[nav EXCEPT !.selected = s] : s \in key_up(nav.selected, nav.opened, its)}
      [] msg = "Down" ->
           {[nav EXCEPT !.selected = key_down(nav.selected, nav.opened, its)]}
      [] msg = "Left" ->
           {[nav EXCEPT !.selected = r.selected, !.opened = r.opened] :
                r \in key_left(nav.selected, nav.opened)}
      [] OTHER ->
           {[nav EXCEPT !.selected = r.selected, !.opened = r.opened] :
                r \in key_right(nav.selected, nav.opened)}

\* update with the arms of Up and Down exchanged.
updateUpDownSwapped(msg, nav, its) ==
    CASE msg = "Quit" ->
           {[nav EXCEPT !.should_quit = TRUE]}
      [] msg = "Down" ->
           {[nav EXCEPT !.selected = s] : s \in key_up(nav.selected, nav.opened, its)}
      [] msg = "Up" ->
           {[nav EXCEPT !.selected = key_down(nav.selected, nav.opened, its)]}
      [] msg = "Left" ->
           {[nav EXCEPT !.selected = r.selected, !.opened = r.opened] :
                r \in key_left(nav.selected, nav.opened)}
      [] msg = "Right" ->
           {[nav EXCEPT !.selected = r.selected, !.opened = r.opened] :
                r \in key_right(nav.selected, nav.opened)}
      [] OTHER -> {nav}

\* update whose Quit arm also resets the tree state.
updateQuitClears(msg, nav, its) ==
    CASE msg = "Quit" ->
           {[selected |-> <<>>, opened |-> {}, should_quit |-> TRUE]}
      [] msg = "Up" ->
           {[nav EXCEPT !.selected = s] : s \in key_up(nav.selected, nav.opened, its)}
      [] msg = "Down" ->
           {[nav EXCEPT !.selected = key_down(nav.selected, nav.opened, its)]}
      [] msg = "Left" ->
           {[nav EXCEPT !.selected = r.selected, !.opened = r.opened] :
                r \in key_left(nav.selected, nav.opened)}
      [] msg = "Right" ->
           {[nav EXCEPT !.selected = r.selected, !.opened = r.opened] :
                r \in key_right(nav.selected, nav.opened)}
      [] OTHER -> {nav}

\* The Action App::update returns (main.rs:123), whatever it was given.
update_returns(msg) == "None"

\* App::update (main.rs:106-124): the navigation states the reduction of
\* msg can produce from nav = [selected, opened, should_quit].
update(msg, nav, its) ==
    CASE msg = "Quit" ->
           {[nav EXCEPT !.should_quit = TRUE]}
      [] msg = "Up" ->
           {[nav EXCEPT !.selected = s] : s \in key_up(nav.selected, nav.opened, its)}
      [] msg = "Down" ->
           {[nav EXCEPT !.selected = key_down(nav.selected, nav.opened, its)]}
      [] msg = "Left" ->
           {[nav EXCEPT !.selected = r.selected, !.opened = r.opened] :
                r \in key_left(nav.selected, nav.opened)}
      [] msg = "Right" ->
           {[nav EXCEPT !.selected = r.selected, !.opened = r.opened] :
                r \in key_right(nav.selected, nav.opened)}
      [] OTHER -> {nav}

\* f.render_stateful_widget(widget, layout[0], &mut self.state), called at
\* main.rs:86 with the TreeState borrowed mutably.  The widget belongs to
\* tui_tree_widget; modelled from spec 4.3 (rendering performs no mutation):
\* the selection and the opened set come back as they went in.
render_stateful_widget(sel, op) == [selected |-> sel, opened |-> op]

\* The text App::draw puts in the detail pane (main.rs:88-92); the Debug
\* representation of a packet is modelled by the packet itself.  The lookup
\* packets[i] panics when i is out of bounds.
DetailInBounds(sel, pk) == sel = <<>> \/ Last(sel) \in 0..(Len(pk) - 1)

\* DetailText indexing the packets from the other end.
DetailTextReversed(sel, pk) ==
    IF sel # <<>> THEN pk[Len(pk) - Last(sel)] ELSE "Nothing selected"

DetailText(sel, pk) ==
    IF sel # <<>> THEN pk[Last(sel) + 1] ELSE "Nothing selected"

\* draw building a fresh TreeState for every frame.
drawFreshState(sel, op, quit) ==
    [selected |-> <<>>, opened |-> {}, should_quit |-> quit]

\* What App::draw (main.rs:53-104) does to the App it borrows mutably: the
\* tree state goes through the widget's render (main.rs:86); should_quit and
\* the items are only read.
draw(sel, op, quit) ==
    LET r == render_stateful_widget(sel, op)
    IN  [selected |-> r.selected, opened |-> r.opened, should_quit |-> quit]


\* ------------------------------------------------------- main flow: startup
\* main.rs:198.
InitializePanicHandler ==
    /\ mpc = "init"
    /\ mpc' = "args"
    /\ hookInstalled' = TRUE
    /\ UNCHANGED <<tickVars, observe, histVars,
                   argv, exitStatus, hookRuns, started, releaseFailed,
                   termVars, appVars, chanVars, task>>

\* main.rs:200, an argument is given.
ArgsPresent ==
    /\ mpc = "args"
    /\ argv = "file"
    /\ mpc' = "read"
    /\ UNCHANGED <<tickVars, observe, histVars,
                   argv, exitStatus, hookInstalled, hookRuns, started,
                   releaseFailed, termVars, appVars, chanVars, task>>

\* main.rs:200, no argument: expect("missing file") panics.
ArgsMissing ==
    /\ mpc = "args"
    /\ argv = "missing"
    /\ \E o \in ShutdownOutcomes : MainPanics(o)
    /\ UNCHANGED <<tickVars, observe, histVars,
                   argv, hookInstalled, started, appVars, queue, txTask, task>>

\* main.rs:201: read_to_string(file).await?
ReadFile ==
    /\ mpc = "read"
    /\ \E ok \in BOOLEAN :
          IF ok THEN mpc' = "header" /\ UNCHANGED exitStatus
          ELSE MainReturns("err")
    /\ UNCHANGED <<tickVars, observe, histVars,
                   argv, hookInstalled, hookRuns, started, releaseFailed, termVars,
                   appVars, chanVars, task>>

\* main.rs:203-204: dearmor.read_header()?
ReadHeader ==
    /\ mpc = "header"
    /\ \E ok \in BOOLEAN :
          IF ok THEN mpc' = "parse" /\ UNCHANGED exitStatus
          ELSE MainReturns("err")
    /\ UNCHANGED <<tickVars, observe, histVars,
                   argv, hookInstalled, hookRuns, started, releaseFailed, termVars,
                   appVars, chanVars, task>>

\* main.rs:205: the parser yields the packets, or an error.
ParsePackets ==
    /\ mpc = "parse"
    /\ \E ok \in BOOLEAN :
          IF ok
          THEN /\ \E pk \in SeqsUpTo(Tags, MaxPackets) : packets' = pk
               /\ mpc' = "startup"
               /\ UNCHANGED exitStatus
          ELSE MainReturns("err") /\ UNCHANGED packets
    /\ UNCHANGED <<tickVars, observe, histVars,
                   argv, hookInstalled, hookRuns, started, releaseFailed, termVars,
                   items, selected, opened, should_quit, detail, chanVars,
                   task>>

\* main.rs:207: startup()?
Startup ==
    /\ mpc = "startup"
    /\ \E o \in StartupOutcomes :
          /\ RunStartup(o)
          /\ IF o = "ok"
             THEN mpc' = "term_new" /\ started' = TRUE /\ UNCHANGED exitStatus
             ELSE MainReturns("err") /\ UNCHANGED started
    /\ UNCHANGED <<tickVars, observe, histVars,
                   argv, hookInstalled, hookRuns, releaseFailed, appVars, chanVars,
                   task>>

\* ----------------------------------------------------------- main flow: run
\* main.rs:170: Terminal::new(..)?; an error leaves run and, through the `?`
\* of main.rs:208, main.
TerminalNew ==
    /\ mpc = "term_new"
    /\ \E ok \in BOOLEAN :
          IF ok THEN mpc' = "spawn" /\ UNCHANGED exitStatus
          ELSE MainReturns("err")
    /\ UNCHANGED <<tickVars, observe, histVars,
                   argv, hookInstalled, hookRuns, started, releaseFailed, termVars,
                   appVars, chanVars, task>>

\* SpawnApp with the sender moved into the task instead of cloned for it.
SpawnAppMovesSender ==
    /\ mpc = "spawn"
    /\ mpc' = "draw"
    /\ queue' = <<>>
    /\ rxAlive' = TRUE
    /\ txApp' = FALSE
    /\ txTask' = TRUE
    /\ items' = NewItems(packets)
    /\ selected' = <<>>
    /\ opened' = {}
    /\ should_quit' = FALSE
    /\ task' = "spawned"
    /\ UNCHANGED <<tickVars, observe, histVars,
                   argv, exitStatus, hookInstalled, hookRuns, started,
                   releaseFailed, termVars, packets, detail>>

\* main.rs:172-175: the channel, App::new (main.rs:36-51) and
\* handle_event's tokio::spawn (main.rs:126-129).
SpawnApp ==
    /\ mpc = "spawn"
    /\ mpc' = "draw"
    /\ queue' = <<>>
    /\ rxAlive' = TRUE
    /\ txApp' = TRUE
    /\ txTask' = TRUE
    /\ items' = NewItems(packets)
    /\ selected' = <<>>
    /\ opened' = {}
    /\ should_quit' = FALSE
    /\ task' = "spawned"
    /\ UNCHANGED <<tickVars, observe, histVars,
                   argv, exitStatus, hookInstalled, hookRuns, started,
                   releaseFailed, termVars, packets, detail>>

\* main.rs:178-180: one frame.  App::draw panics on an out-of-bounds lookup
\* (main.rs:89); an I/O error of Terminal::draw leaves run through `?`,
\* dropping the App, the receiver and the task's handle, and leaves main
\* through the `?` of main.rs:208.
Draw ==
    /\ mpc = "draw"
    /\ LET r == draw(selected, opened, should_quit)
       IN  /\ selected' = r.selected
           /\ opened' = r.opened
           /\ should_quit' = r.should_quit
           /\ IF ~DetailInBounds(r.selected, packets)
              THEN /\ \E o \in ShutdownOutcomes : MainPanics(o)
                   /\ UNCHANGED <<detail, frames>>
              ELSE \E ok \in BOOLEAN :
                      /\ detail' = DetailText(r.selected, packets)
                      /\ IF ok
                         THEN /\ mpc' = "recv"
                              /\ frames' = IF observe THEN frames + 1 ELSE frames
                              /\ UNCHANGED <<exitStatus, txApp, rxAlive>>
                         ELSE /\ MainReturns("err")
                              /\ txApp' = FALSE
                              /\ rxAlive' = FALSE
                              /\ UNCHANGED frames
                      /\ UNCHANGED <<termVars, releaseFailed, hookRuns>>
    /\ UNCHANGED <<tickVars, observe, sent, applied, argv, hookInstalled,
                   started, packets, items, queue, txTask, task>>

\* recv() reports a closed channel when nothing is queued and no sender is
\* left.
ChannelClosed == queue = <<>> /\ ~txApp /\ ~txTask

\* Recv that takes a None from the channel without reducing it.
RecvSkipsNone ==
    /\ mpc = "recv"
    /\ queue # <<>> \/ ChannelClosed
    /\ mpc' = "check"
    /\ IF queue # <<>>
       THEN /\ queue' = Tail(queue)
            /\ IF Head(queue) = "None"
               THEN UNCHANGED <<navVars, applied>>
               ELSE /\ applied' = IF observe THEN Append(applied, Head(queue))
                                  ELSE applied
                    /\ \E n \in update(Head(queue),
                                       [selected |-> selected,
                                        opened |-> opened,
                                        should_quit |-> should_quit], items) :
                          /\ selected' = n.selected
                          /\ opened' = n.opened
                          /\ should_quit' = n.should_quit
       ELSE UNCHANGED <<queue, navVars, applied>>
    /\ UNCHANGED <<tickVars, observe, sent, frames,
                   argv, exitStatus, hookInstalled, hookRuns, started,
                   releaseFailed, termVars, packets, items, detail, txApp,
                   txTask, rxAlive, task>>

\* main.rs:182-184: recv().await, then update on Some(action); on None the
\* body of the `if let` is skipped.
Recv ==
    /\ mpc = "recv"
    /\ queue # <<>> \/ ChannelClosed
    /\ mpc' = "check"
    /\ IF queue # <<>>
       THEN /\ queue' = Tail(queue)
            /\ applied' = IF observe THEN Append(applied, Head(queue)) ELSE applied
            /\ \E n \in update(Head(queue),
                               [selected |-> selected, opened |-> opened,
                                should_quit |-> should_quit], items) :
                  /\ selected' = n.selected
                  /\ opened' = n.opened
                  /\ should_quit' = n.should_quit
       ELSE UNCHANGED <<queue, navVars, applied>>
    /\ UNCHANGED <<tickVars, observe, sent, frames,
                   argv, exitStatus, hookInstalled, hookRuns, started,
                   releaseFailed, termVars, packets, items, detail, txApp,
                   txTask, rxAlive, task>>

\* CheckQuit that goes back to recv without drawing a frame.
CheckQuitSkipsDraw ==
    /\ mpc = "check"
    /\ mpc' = IF should_quit THEN "abort" ELSE "recv"
    /\ UNCHANGED <<tickVars, observe, histVars,
                   argv, exitStatus, hookInstalled, hookRuns, started,
                   releaseFailed, termVars, appVars, chanVars, task>>

\* CheckQuit with the break of main.rs:187 missing.
CheckQuitNeverBreaks ==
    /\ mpc = "check"
    /\ mpc' = "draw"
    /\ UNCHANGED <<tickVars, observe, histVars,
                   argv, exitStatus, hookInstalled, hookRuns, started,
                   releaseFailed, termVars, appVars, chanVars, task>>

\* main.rs:186-188.
CheckQuit ==
    /\ mpc = "check"
    /\ mpc' = IF should_quit THEN "abort" ELSE "draw"
    /\ UNCHANGED <<tickVars, observe, histVars,
                   argv, exitStatus, hookInstalled, hookRuns, started,
                   releaseFailed, termVars, appVars, chanVars, task>>

\* main.rs:191: task.abort().  The task's future has no await point
\* (poll, read and send never yield), so abort only cancels a task that has
\* not been polled yet; its future, and the sender in it, is then dropped.
AbortTask ==
    /\ mpc = "abort"
    /\ mpc' = "run_ret"
    /\ task' = IF task = "spawned" THEN "cancelled" ELSE task
    /\ txTask' = IF task = "spawned" THEN FALSE ELSE txTask
    /\ UNCHANGED <<tickVars, observe, histVars,
                   argv, exitStatus, hookInstalled, hookRuns, started,
                   releaseFailed, termVars, appVars, queue, txApp, rxAlive>>

\* main.rs:193-194: run returns Ok(()); the App and the receiver are
\* dropped.
RunReturns ==
    /\ mpc = "run_ret"
    /\ mpc' = "shutdown"
    /\ txApp' = FALSE
    /\ rxAlive' = FALSE
    /\ UNCHANGED <<tickVars, observe, histVars,
                   argv, exitStatus, hookInstalled, hookRuns, started,
                   releaseFailed, termVars, appVars, queue, txTask, task>>

\* main.rs:209-210: shutdown()?; Ok(()).
Shutdown ==
    /\ mpc = "shutdown"
    /\ \E o \in ShutdownOutcomes :
          /\ RunShutdown(o)
          /\ MainReturns(IF o = "ok" THEN "ok" ELSE "err")
    /\ UNCHANGED <<tickVars, observe, histVars,
                   argv, hookInstalled, hookRuns, started, appVars, chanVars, task>>

\* main.rs:196: main has returned (or unwound) and the runtime of
\* #[tokio::main] is dropped, which waits for a task that is being polled
\* to return; the process then exits with the status main produced.
ProcessExit ==
    /\ mpc = "ret"
    /\ task # "running"
    /\ mpc' = "exited"
    /\ UNCHANGED <<tickVars, observe, histVars,
                   argv, exitStatus, hookInstalled, hookRuns, started,
                   releaseFailed, termVars, appVars, chanVars, task>>

\* ------------------------------------------------------- the polling task
\* The runtime polls the spawned future for the first time.
TaskStart ==
    /\ task = "spawned"
    /\ mpc # "exited"
    /\ task' = "running"
    /\ UNCHANGED <<tickVars, observe, histVars,
                   argv, mpc, exitStatus, hookInstalled, hookRuns, started,
                   releaseFailed, termVars, appVars, chanVars>>

\* main.rs:130-151, an iteration whose send succeeds.
TaskSend ==
    /\ task = "running"
    /\ mpc # "exited"
    /\ rxAlive
    /\ Len(queue) < MaxQueue
    /\ observe => Len(sent) < MaxSends
    /\ \E e \in Events \ PanicEvents :
          /\ queue' = Append(queue, ActionOf(e))
          /\ sent' = IF observe THEN Append(sent, ActionOf(e)) ELSE sent
    /\ UNCHANGED <<tickVars, observe, applied, frames,
                   argv, mpc, exitStatus, hookInstalled, hookRuns, started,
                   releaseFailed, termVars, appVars, txApp, txTask, rxAlive,
                   task>>

\* main.rs:151-153, an iteration whose send fails because the receiver is
\* gone: the loop breaks and the future returns, dropping the sender.
TaskSendFails ==
    /\ task = "running"
    /\ mpc # "exited"
    /\ ~rxAlive
    /\ task' = "done"
    /\ txTask' = FALSE
    /\ UNCHANGED <<tickVars, observe, histVars,
                   argv, mpc, exitStatus, hookInstalled, hookRuns, started,
                   releaseFailed, termVars, appVars, queue, txApp, rxAlive>>

\* main.rs:131-132, an iteration in which poll() or read() fails and unwrap
\* panics inside the task.  The hook runs; if it does not abort the process
\* the runtime catches the unwinding panic at the task's boundary: the task
\* ends (its sender dropped) and every other unit keeps running.
TaskPanics ==
    /\ task = "running"
    /\ mpc # "exited"
    /\ \E e \in PanicEvents, o \in ShutdownOutcomes :
          /\ PanicHook(o)
          /\ IF HookAborts(o)
             THEN mpc' = "exited" /\ exitStatus' = "abort"
             ELSE UNCHANGED <<mpc, exitStatus>>
    /\ task' = "panicked"
    /\ txTask' = FALSE
    /\ UNCHANGED <<tickVars, observe, histVars,
                   argv, hookInstalled, started, appVars, queue, txApp, rxAlive>>

\* ------------------------------------------------------------ specification
MainNext ==
    \/ InitializePanicHandler
    \/ ArgsPresent
    \/ ArgsMissing
    \/ ReadFile
    \/ ReadHeader
    \/ ParsePackets
    \/ Startup
    \/ TerminalNew
    \/ SpawnApp
    \/ Draw
    \/ Recv
    \/ CheckQuit
    \/ AbortTask
    \/ RunReturns
    \/ Shutdown
    \/ ProcessExit

TaskNext ==
    \/ TaskStart
    \/ TaskSend
    \/ TaskSendFails
    \/ TaskPanics

Next == MainNext \/ TaskNext

Spec == Init /\ [][Next]_vars


\* The program with its histories (sent, applied, frames) recorded, for the
\* first MaxSends sends.
SpecHist == InitHist /\ [][Next]_vars

\* ----------------------------------------- the polling task, with its time
\* A session in progress on a file without packets: the first frame is
\* drawn, the main flow waits in recv() and the polling task has just
\* entered its first poll().
SessionRunning ==
    /\ argv = "file"
    /\ mpc = "recv"
    /\ exitStatus = "-"
    /\ hookInstalled = TRUE
    /\ hookRuns = 0
    /\ started = TRUE
    /\ releaseFailed = FALSE
    /\ raw = TRUE
    /\ alt = TRUE
    /\ termOps = {"enable_raw", "enter_alt"}
    /\ packets = <<>>
    /\ items = <<>>
    /\ selected = <<>>
    /\ opened = {}
    /\ should_quit = FALSE
    /\ detail = "Nothing selected"
    /\ queue = <<>>
    /\ txApp = TRUE
    /\ txTask = TRUE
    /\ rxAlive = TRUE
    /\ task = "running"
    /\ sent = <<>>
    /\ applied = <<>>
    /\ frames = 0
    /\ now = 0
    /\ pollStart = 0
    /\ sendLog = <<>>

InitTick == SessionRunning /\ observe = FALSE

\* Everything but the channel's content and the timed view.
restVars == <<argv, mpc, exitStatus, hookInstalled, hookRuns, started,
              releaseFailed, termVars, appVars, txApp, txTask, rxAlive, task,
              observe, histVars>>

TimeoutEvent == [poll |-> "timeout", read |-> "-", kind |-> "-", code |-> "-"]
ReadyEvents == {e \in Events : e.poll = "ready" /\ e.read # "err"}
EventSends == {i \in 1..Len(sendLog) : sendLog[i].ev.poll = "ready"}

\* tx.send(action) (main.rs:151) at the present time, for observation e;
\* the loop then enters poll() again (main.rs:130-131).
SendAt(e) ==
    /\ sendLog' = Append(sendLog, [t |-> now, ev |-> e, a |-> ActionOf(e)])
    /\ queue' = Append(queue, ActionOf(e))
    /\ pollStart' = now

\* Time passes while poll(tick_rate) waits; it cannot pass the deadline of
\* the poll without the poll returning.
TimePasses ==
    /\ now < pollStart + tick_rate
    /\ now + TimeStep <= MaxSteps * TimeStep
    /\ now' = now + TimeStep
    /\ UNCHANGED <<restVars, queue, pollStart, sendLog>>

\* PollTimesOut without the send: the loop polls again at once.
PollTimesOutSilent ==
    /\ now = pollStart + tick_rate
    /\ pollStart' = now
    /\ UNCHANGED <<restVars, queue, now, sendLog>>

\* main.rs:131, 148-151: poll(tick_rate) returns false when tick_rate has
\* elapsed without an event; None is sent.
PollTimesOut ==
    /\ now = pollStart + tick_rate
    /\ SendAt(TimeoutEvent)
    /\ UNCHANGED <<restVars, now>>

\* main.rs:131-147, 151: an event arrives while poll() waits; poll returns
\* true at once, read() yields the event and its Action is sent.
PollReady ==
    /\ now <= pollStart + tick_rate
    /\ Cardinality(EventSends) < MaxEvents
    /\ \E e \in ReadyEvents : SendAt(e)
    /\ UNCHANGED <<restVars, now>>

NextTick == TimePasses \/ PollTimesOut \/ PollReady

\* The polling task of a running session, with the time of its sends.
SpecTick == InitTick /\ [][NextTick]_vars

\* The scheduling the runtime gives: the main flow and the polling task each
\* run on a thread of the multi-threaded runtime, so a step of either that
\* stays possible is eventually taken.  Failures of the terminal (a panic of
\* the task) are not forced.
FairSpec ==
    /\ Spec
    /\ WF_vars(MainNext)
    /\ WF_vars(TaskStart)
    /\ WF_vars(TaskSend)
    /\ WF_vars(TaskSendFails)

\* ------------------------------------------------------------------ claims
Restored == ~raw /\ ~alt
Abnormal == {"panic", "abort", "err"}

\* C1: once startup() has succeeded, the process never ends with the
\* terminal still in raw mode or on the alternate screen (a shutdown() that
\* itself fails set aside).
C1_RestoredOnEveryExit ==
    (mpc = "exited" /\ started /\ ~releaseFailed) => Restored

\* C2: a panic is intercepted by the hook exactly once, the hook restores
\* the terminal, and the panic then ends the process abnormally: once the
\* hook has run the main flow takes no step but the exit of the process,
\* and the exit status is that of a panic.
C2_PanicEndsProcess ==
    /\ [](hookRuns > 0 =>
            /\ hookRuns = 1
            /\ releaseFailed \/ Restored
            /\ (mpc = "exited" => exitStatus \in {"panic", "abort"}))
    /\ [][hookRuns > 0 => (mpc' = mpc \/ mpc' = "exited")]_vars

\* C3: whenever the main flow waits in recv() on a channel that is not
\* closed, it eventually gets an Action and leaves the wait.
C3_RecvEventuallyReturns ==
    (mpc = "recv" /\ ~ChannelClosed) ~> (mpc # "recv")

\* C5 (as stated): once Quit has been reduced the process ends with exit
\* status 0 (runs in which a unit panicked set aside).
C5_QuitExitsZero ==
    (should_quit /\ mpc = "exited" /\ hookRuns = 0) => exitStatus = "ok"

\* C5 (amended): the reduction of Quit sets should_quit; once it is set the
\* main flow is past its last draw and its last recv (it drew no further
\* frame and reduced no further Action, whatever is still queued), and the
\* process ends with status 0 unless a shutdown() call failed.
C5_QuitLeavesLoop ==
    /\ [](should_quit =>
            /\ mpc \in {"check", "abort", "run_ret", "shutdown", "ret", "exited"}
            /\ (mpc = "exited" /\ ~releaseFailed => exitStatus = "ok"))
    /\ [][(mpc = "recv" /\ mpc' = "check" /\ queue # <<>> /\ Head(queue) = "Quit")
            => should_quit']_vars
    /\ [][should_quit =>
            /\ selected' = selected
            /\ opened' = opened
            /\ detail' = detail
            /\ Len(queue') >= Len(queue)]_vars

\* C5 witness: the process has ended with status 0 after a Quit, with an
\* Action that was queued behind the Quit still unreduced.
C5_Witness ==
    should_quit /\ mpc = "exited" /\ exitStatus = "ok" /\ queue # <<>>

\* C6: should_quit is false initially and only the reduction of Quit makes
\* it true; reducing Up, Down, Left, Right or None leaves it false.
C6_FlagOnlyByQuit ==
    /\ [](mpc \in {"init", "args", "read", "header", "parse", "startup",
                   "term_new", "spawn"} => ~should_quit)
    /\ [][(should_quit' /\ ~should_quit)
            => (mpc = "recv" /\ queue # <<>> /\ Head(queue) = "Quit")]_vars
    /\ [][(mpc = "recv" /\ mpc' = "check" /\ queue # <<>> /\ Head(queue) # "Quit")
            => should_quit' = should_quit]_vars

\* C6 witness: Actions other than Quit have been reduced (an item is
\* selected) and the flag is still false.
C6_Witness ==
    mpc = "check" /\ selected # <<>> /\ ~should_quit /\ Len(packets) >= 2
        /\ selected = <<Len(packets) - 1>>

\* C7: the selection path is empty or a single identifier in 0..N-1, so the
\* lookup packets[i] of draw is in bounds and draw never panics; with no
\* packet the selection stays empty.
C7_SelectionInBounds ==
    /\ Len(selected) <= 1
    /\ DetailInBounds(selected, packets)
    /\ (Len(packets) = 0 => selected = <<>>)
    /\ (started => exitStatus # "panic")

\* C7 witness: the last of at least two items is selected when a frame is
\* about to be drawn.
C7_Witness ==
    mpc = "draw" /\ Len(packets) >= 2 /\ selected = <<Len(packets) - 1>>

\* C9: started without a file argument, the process ends abnormally and no
\* terminal-mode operation is issued.
C9_NoArgNoTerminalOp ==
    argv = "missing" =>
        /\ termOps = {}
        /\ (mpc = "exited" => exitStatus \in Abnormal)

\* C10: every startup failure (file, armor header, parser, startup()) ends
\* the process with a non-zero status and the terminal in its original
\* mode.
C10_StartupFailureLeavesTerminal ==
    (argv = "file" /\ mpc = "exited" /\ ~started) =>
        /\ exitStatus \in Abnormal
        /\ Restored


\* The step that takes an Action from the channel and reduces it.
RecvStep == mpc = "recv" /\ mpc' = "check" /\ queue # <<>>
LoopPcs == {"draw", "recv", "check"}
AllDown(h) == \A i \in 1..Len(h) : h[i] = "Down"

\* C11: the Actions reduced are a prefix of the Actions sent, in the same
\* order, and what was sent and is not yet reduced is exactly what is in
\* flight: nothing is skipped, repeated, reordered or merged.
C11_AppliedPrefixOfSent ==
    /\ Len(applied) <= Len(sent)
    /\ \A i \in 1..Len(applied) : applied[i] = sent[i]
    /\ sent = applied \o queue

\* C11 witness: three Actions, not all the same, have been sent and reduced.
C11_Witness ==
    Len(applied) = 3 /\ applied = sent /\ applied[1] # applied[2]
        /\ applied[2] # applied[3]

\* C14: in the frame on screen while the main flow waits, the detail pane
\* shows packets[i] exactly when identifier i is selected and the
\* placeholder exactly when nothing is; after k presses of Down from the
\* start it shows the k-th packet, in the order of the file (the last one
\* from then on).
C14_DetailShowsSelection ==
    mpc = "recv" =>
        /\ selected = <<>> => detail = "Nothing selected"
        /\ selected # <<>> => detail = packets[Last(selected) + 1]
        /\ detail = "Nothing selected" => selected = <<>>
        /\ (applied # <<>> /\ AllDown(applied) /\ Len(packets) > 0)
              => detail = packets[Min(Len(applied), Len(packets))]

\* C14 witness: two different packets, Down reduced twice, and the second
\* packet is on screen.
C14_Witness ==
    /\ mpc = "recv"
    /\ applied = <<"Down", "Down">>
    /\ Len(packets) = 2
    /\ packets[1] # packets[2]
    /\ detail = packets[2]

\* C15: with at least one item, Down selects identifier 0 from an empty
\* selection and i+1 from i < N-1, Up selects i-1 from i > 0, and Down on
\* the last item and Up on the first change nothing.
C15_UpDownClamp ==
    [][(RecvStep /\ Len(items) >= 1) =>
          LET n == Len(items)
              a == Head(queue)
          IN  /\ (a = "Down" /\ selected = <<>>) => selected' = <<0>>
              /\ (a = "Down" /\ selected # <<>> /\ Last(selected) < n - 1)
                    => selected' = <<Last(selected) + 1>>
              /\ (a = "Down" /\ selected # <<>> /\ Last(selected) = n - 1)
                    => selected' = selected
              /\ (a = "Up" /\ selected # <<>> /\ Last(selected) > 0)
                    => selected' = <<Last(selected) - 1>>
              /\ (a = "Up" /\ selected # <<>> /\ Last(selected) = 0)
                    => selected' = selected]_vars

\* C15 witness: with two items, a third Down has left the last item
\* selected.
C15_Witness ==
    /\ applied = <<"Down", "Down", "Down">>
    /\ Len(items) = 2
    /\ selected = <<1>>

\* C16: the loop alternates one frame and one reduction: a frame has been
\* drawn for the wait the main flow is in, every reduction takes one Action
\* and is applied to the state the last frame shows, the loop is left by the
\* flag only from its check, and when it is left the frames drawn are as
\* many as the Actions reduced.
C16_FramesMatchReductions ==
    /\ [](mpc = "recv" => frames = Len(applied) + 1)
    /\ [](mpc \in {"draw", "check", "abort", "run_ret", "shutdown"}
            => frames = Len(applied))
    /\ [][RecvStep =>
            /\ detail = DetailText(selected, packets)
            /\ applied' = Append(applied, Head(queue))
            /\ queue' = Tail(queue)]_vars
    /\ [][(mpc' = "abort" /\ mpc # "abort") => (mpc = "check" /\ should_quit)]_vars

\* C16 witness: the loop has been left after three frames and three
\* reductions.
C16_Witness ==
    mpc = "abort" /\ frames = 3 /\ Len(applied) = 3

\* C17: the polling task ends only by a send that fails once the receiver
\* is gone, or by being cancelled; while the receiver is alive it ends for
\* no other reason.
C17_TaskEndsOnlyOnClosedOrCancel ==
    /\ task = "done" => ~rxAlive
    /\ (task \in {"done", "cancelled", "panicked"} /\ rxAlive)
          => task = "cancelled"

\* C18: a step taken while the main flow is drawing leaves the selection,
\* the opened set, should_quit, the items and the packets as they were; they
\* change only where the App is built and where an Action is reduced.
C18_DrawLeavesState ==
    /\ [][mpc = "draw" =>
            /\ selected' = selected
            /\ opened' = opened
            /\ should_quit' = should_quit
            /\ items' = items
            /\ packets' = packets]_vars
    /\ [][<<selected, opened, should_quit, items>>'
              # <<selected, opened, should_quit, items>>
            => mpc \in {"spawn", "recv"}]_vars

\* C18 witness: a frame has been drawn of a state with a selection.
C18_Witness ==
    mpc = "recv" /\ selected # <<>> /\ detail # "Nothing selected"

\* C19: reducing Quit changes should_quit only, reducing None changes
\* nothing, and update returns None whatever it is given.
C19_QuitAndNoneFrame ==
    /\ [][(RecvStep /\ Head(queue) \in {"Quit", "None"}) =>
            /\ selected' = selected
            /\ opened' = opened
            /\ items' = items
            /\ packets' = packets
            /\ should_quit' = (should_quit \/ Head(queue) = "Quit")]_vars
    /\ [](\A a \in Actions : update_returns(a) = "None")

\* C19 witness: Quit has been reduced with an item selected, and it still
\* is.
C19_Witness ==
    mpc = "check" /\ should_quit /\ selected # <<>>

\* C20: while the main flow is in its loop the App's sender is alive, so
\* recv() cannot report a closed channel, also after the polling task has
\* ended; the loop is left only from its check with the flag set or by a
\* failing draw (the abort of the whole process by a failing panic hook set
\* aside).
C20_LoopNeverSeesClosed ==
    /\ [](mpc \in LoopPcs => (txApp /\ rxAlive /\ ~ChannelClosed))
    /\ [][(mpc \in LoopPcs /\ mpc' \notin LoopPcs) =>
            \/ mpc = "check" /\ should_quit /\ mpc' = "abort"
            \/ mpc = "draw" /\ mpc' = "ret" /\ exitStatus' = "err"
            \/ mpc' = "exited" /\ exitStatus' = "abort"]_vars

\* C20 witness: the polling task has ended and dropped its sender, nothing
\* is queued, and the main flow waits in recv().
C20_Witness ==
    /\ mpc = "recv"
    /\ task = "panicked"
    /\ ~txTask
    /\ queue = <<>>
    /\ exitStatus = "-"


\* The tick intervals (w, w + tick_rate] that have wholly elapsed, every
\* send due in them made.
Windows ==
    {w \in 0..now : w % TimeStep = 0 /\ w + tick_rate <= now /\ w < pollStart}
SendsIn(w) ==
    {i \in 1..Len(sendLog) : w < sendLog[i].t /\ sendLog[i].t <= w + tick_rate}
Nones(I) == \A i \in I : sendLog[i].a = "None"

KeyOfClaim(e) ==
    IF e.poll = "ready" /\ e.read = "key" /\ e.kind = "Press"
    THEN IF e.code = "q" THEN "Quit"
         ELSE IF e.code \in {"Left", "Right", "Up", "Down"} THEN e.code
         ELSE "None"
    ELSE "None"

\* C13: every iteration of the polling task sends one Action, the one its
\* observation determines: Quit for a press of q, Left/Right/Up/Down for a
\* press of that arrow, None for any other press, for a key event that is
\* not a press, for an event that is not a key event and for a timeout.
C13_ActionOfObservation ==
    /\ [](\A i \in 1..Len(sendLog) : sendLog[i].a = KeyOfClaim(sendLog[i].ev))
    /\ [][(sendLog' # sendLog \/ pollStart' # pollStart) =>
            /\ Len(sendLog') = Len(sendLog) + 1
            /\ SubSeq(sendLog', 1, Len(sendLog)) = sendLog
            /\ queue' = Append(queue, Last(sendLog').a)]_vars

\* C13 witness: a press of q has given Quit and a release of q has given
\* None.
C13_Witness ==
    /\ \E i \in 1..Len(sendLog) :
          /\ sendLog[i].ev.kind = "Press"
          /\ sendLog[i].ev.code = "q"
          /\ sendLog[i].a = "Quit"
    /\ \E i \in 1..Len(sendLog) :
          /\ sendLog[i].ev.kind = "Release"
          /\ sendLog[i].ev.code = "q"
          /\ sendLog[i].a = "None"

====
